---------------------------- MODULE Spec2Model ----------------------------
(***************************************************************************)
(* Activity-based product audience recommender.                            *)
(*                                                                         *)
(* Offline: cli/train.py builds an ActivityBaseline (src/model.py), calls  *)
(* train, precompute_recommendations and save.  Online: src/api.py loads   *)
(* the saved parquet table in its lifespan handler, pre-serialises one     *)
(* response per product plus a global fallback, and answers                *)
(* GET /recommend/{product_id}?n= from that state.                         *)
(*                                                                         *)
(* Specifications:                                                         *)
(*  - SpecOffline: train, precompute, save over every training table;      *)
(*  - Spec: the offline job followed by startup and GET /recommend;        *)
(*  - SpecService: artifact from the job or from the operator, startup,    *)
(*    every endpoint, shutdown;                                            *)
(*  - SpecConcurrent: GET /recommend requests in flight together;          *)
(*  - SpecRetrain: train and precompute run twice by one caller;           *)
(*  - SpecLifespan: startup one assignment at a time, with the endpoints;  *)
(*  - SpecLoad: save, then ActivityBaseline.load into a new instance;      *)
(*  - SpecCatalogue: the job and the service over three products;          *)
(*  - SpecScore: the scoring expression on its own.                        *)
(*                                                                         *)
(* Representation choices:                                                 *)
(*  - a Python dict is a sequence of [key, val] records in insertion       *)
(*    order;                                                               *)
(*  - a DataFrame is [columns, rows], rows a sequence of records;          *)
(*  - the float recent_count / (days_since + 1) is the fraction in lowest  *)
(*    terms [num, den]; floats of small integer quotients compare exactly  *)
(*    as the fractions do;                                                 *)
(*  - event dates are day numbers;                                         *)
(*  - a training table is a set of distinct rows.                          *)
(***************************************************************************)
EXTENDS Integers, Sequences, FiniteSets, TLC

VARIABLES
    pc,                     \* position of cli/train.py: load, trained, precomputed, saved;
                            \* of a caller of ActivityBaseline.load: loaded, load_raised
    train_df,               \* cli/train.py's train_df
    top_n,                  \* cli/train.py's --top-n, once it is used
    user_activity,          \* ActivityBaseline.user_activity (dict)
    product_interactions,   \* ActivityBaseline.product_interactions (dict)
    recommendations_cache,  \* ActivityBaseline.recommendations_cache (None or DataFrame)
    metadata,               \* ActivityBaseline.metadata
    cache_file,             \* models/recommendations_cache.parquet
    metadata_file,          \* models/metadata.json
    phase,                  \* API process: down, serving, failed, stopped; inside
                            \* lifespan's startup, the assignment last made
    app_state,              \* src/api.py's app_state
    response,               \* the response to the latest request
    score_in,               \* arguments of a scoring: recent_count and two days_since
    score_out,              \* None, or the two scores computed for score_in
    previous_run,           \* None, or the input and the returned cache of a caller's
                            \* earlier train + precompute_recommendations
    inflight                \* the /recommend requests accepted and validated whose
                            \* handler has not run yet

vars == <<pc, train_df, top_n, user_activity, product_interactions, recommendations_cache,
          metadata, cache_file, metadata_file, phase, app_state, response,
          score_in, score_out, previous_run, inflight>>

trainer_vars == <<pc, train_df, top_n, user_activity, product_interactions,
                  recommendations_cache, metadata>>
file_vars == <<cache_file, metadata_file>>
api_vars == <<phase, app_state, response>>
score_vars == <<score_in, score_out>>

---------------------------------------------------------------------------
(* Bounds of the model and constants of the program. *)

MaxUsers == 3
MaxRows == 3
MaxTopN == 2

\* ActivityBaseline(recency_days=30) in cli/train.py
RecencyDays == 30
\* Query(default=10, ge=1, le=100)
MIN_N == 1
MAX_N == 100
\* .nlargest(100, 'score')
FALLBACK_K == 100
\* the id of tests/test_api.py's unknown product
UnknownProduct == 999999999

Users == 1..MaxUsers
Products == {1, 2}
\* day numbers: two adjacent days, and a day RecencyDays after the second,
\* so that the first falls outside a window ending on the last and the
\* second is that window's first day
Days == {0, 1, RecencyDays + 1}

\* an Optional value: None, or the one value it holds
None == <<>>
Some(x) == <<x>>

\* {}
EmptyDict == <<>>

NOTE_REGULAR == "Activity-based ranking (most recently active users). Not predictive."
NOTE_COLD_START == "NEW PRODUCT (not in training data). Returning globally active users as fallback."

CACHE_COLUMNS == {"product_id", "customer_id", "score", "rank"}

---------------------------------------------------------------------------
(* Generic helpers. *)

Max(S) == CHOOSE x \in S : \A y \in S : y <= x
Min(S) == CHOOSE x \in S : \A y \in S : x <= y

RECURSIVE GCD(_, _)
GCD(a, b) == IF b = 0 THEN a ELSE GCD(b, a % b)

\* Python's a / b for integers a >= 0, b > 0
Div(a, b) == LET g == GCD(a, b) IN [num |-> a \div g, den |-> b \div g]

ScoreLess(x, y) == x.num * y.den < y.num * x.den
ScoreLeq(x, y) == x.num * y.den <= y.num * x.den

RECURSIVE SortedAsc(_)
SortedAsc(S) == IF S = {} THEN <<>>
                ELSE LET m == Min(S) IN <<m>> \o SortedAsc(S \ {m})

RECURSIVE SubsetsUpTo(_, _)
SubsetsUpTo(S, k) ==
    IF k = 0 THEN {{}}
    ELSE LET prev == SubsetsUpTo(S, k - 1)
         IN prev \cup {T \cup {x} : T \in prev, x \in S}

Head_n(s, n) == SubSeq(s, 1, IF n < Len(s) THEN n ELSE Len(s))

\* dict operations
DictKeys(d) == {d[i].key : i \in 1..Len(d)}
DictGet(d, k) == d[CHOOSE i \in 1..Len(d) : d[i].key = k].val
\* a variant of DictSet that moves an updated key to the front
DictSetMoveToFront(d, k, v) ==
    IF k \in DictKeys(d)
    THEN LET other(item) == item.key # k
         IN <<[key |-> k, val |-> v]>> \o SelectSeq(d, other)
    ELSE Append(d, [key |-> k, val |-> v])

\* d[k] = v: a present key keeps its position, a new key goes last
DictSet(d, k, v) ==
    IF k \in DictKeys(d)
    THEN [i \in 1..Len(d) |-> IF d[i].key = k THEN [key |-> k, val |-> v] ELSE d[i]]
    ELSE Append(d, [key |-> k, val |-> v])

---------------------------------------------------------------------------
(* Training input. *)

AllRows == [customer_id : Users, product_id : Products, event_date : Days]
Datasets == SubsetsUpTo(AllRows, MaxRows) \ {{}}

\* the tables of the runs that train twice, and of the runs of the whole
\* service: up to MaxRows rows, all dated on the first day
OneDayRows == {r \in AllRows : r.event_date = Min(Days)}
OneDayDatasets == SubsetsUpTo(OneDayRows, MaxRows) \ {{}}

\* the tables of a catalogue of three products, in which a user can be
\* listed for two products: up to MaxRows rows, all dated on the first day
Catalogue == Products \cup {3}
CatalogueRows ==
    [customer_id : Users, product_id : Catalogue, event_date : {Min(Days)}]
CatalogueDatasets == SubsetsUpTo(CatalogueRows, MaxRows) \ {{}}

\* the tables of the end-to-end runs: every row is dated on the first day or
\* on the last, outside or at the end of the window
EndToEndRows == {r \in AllRows : r.event_date \in {0, RecencyDays + 1}}
EndToEndDatasets == SubsetsUpTo(EndToEndRows, MaxRows) \ {{}}

---------------------------------------------------------------------------
(* ActivityBaseline.train *)

GroupRows(df, c) == {r \in df : r.customer_id = c}

\* a variant of ActivityScore with a wrong day offset
ActivityScoreOffByOne(recent_count, days_since) == Div(recent_count, days_since + 2)

\* a variant of ActivityScore that ignores days_since
ActivityScoreIgnoringDays(recent_count, days_since) == Div(recent_count, 1)

\* activity_score = recent_count / (days_since + 1)
ActivityScore(recent_count, days_since) == Div(recent_count, days_since + 1)

\* a variant of IsRecent without the cutoff: every row counts
IsRecentAlways(event_date, recency_cutoff) == TRUE

\* a variant of IsRecent that drops the cutoff day itself
IsRecentStrict(event_date, recency_cutoff) == event_date > recency_cutoff

\* the rows the recency filter keeps: event_date >= recency_cutoff
IsRecent(event_date, recency_cutoff) == event_date >= recency_cutoff

\* the reference time of the scoring: interaction_df['event_date'].max()
ReferenceDate(df) == Max({r.event_date : r \in df})

\* one iteration of the loop over interaction_df.groupby('customer_id')
UserInfo(df, c) ==
    LET max_date == ReferenceDate(df)
        recency_cutoff == max_date - RecencyDays
        group == GroupRows(df, c)
        recent_count == Cardinality({r \in group : IsRecent(r.event_date, recency_cutoff)})
        last_seen == Max({r.event_date : r \in group})
        days_since == max_date - last_seen
    IN [recent_count |-> recent_count,
        last_seen |-> last_seen,
        days_since |-> days_since,
        activity_score |-> ActivityScore(recent_count, days_since)]

\* groupby iterates its keys in ascending order; each result is stored with
\* self.user_activity[customer_id] = {...}
RECURSIVE TrainUsers(_, _, _)
TrainUsers(d, keys, df) ==
    IF keys = <<>> THEN d
    ELSE TrainUsers(DictSet(d, Head(keys), UserInfo(df, Head(keys))), Tail(keys), df)

\* set(group['customer_id'].values)
InteractedUsers(df, p) == {r.customer_id : r \in {x \in df : x.product_id = p}}

RECURSIVE TrainProducts(_, _, _)
TrainProducts(d, keys, df) ==
    IF keys = <<>> THEN d
    ELSE TrainProducts(DictSet(d, Head(keys), InteractedUsers(df, Head(keys))),
                       Tail(keys), df)

TrainedUsers(old, df) == TrainUsers(old, SortedAsc({r.customer_id : r \in df}), df)
TrainedProducts(old, df) == TrainProducts(old, SortedAsc({r.product_id : r \in df}), df)

TrainMetadata(ua, pi) ==
    [model_type |-> "activity_baseline",
     n_users |-> Len(ua),
     n_products |-> Len(pi),
     recency_days |-> RecencyDays,
     trained_at |-> "now"]

---------------------------------------------------------------------------
(* ActivityBaseline.precompute_recommendations *)

\* sorted(items, key=activity_score, reverse=True): stable, so items of equal
\* score keep their dict order
RECURSIVE InsertDesc(_, _)
InsertDesc(sorted, item) ==
    IF sorted = <<>> THEN <<item>>
    ELSE IF ScoreLess(Head(sorted).val.activity_score, item.val.activity_score)
         THEN <<item>> \o sorted
         ELSE <<Head(sorted)>> \o InsertDesc(Tail(sorted), item)

RECURSIVE SortByActivity(_)
SortByActivity(items) ==
    IF items = <<>> THEN <<>>
    ELSE InsertDesc(SortByActivity(SubSeq(items, 1, Len(items) - 1)), items[Len(items)])

\* a variant of Candidates without the exclusion
CandidatesNoExclusion(users_by_activity, interacted_users) == users_by_activity

\* the list comprehension: users of users_by_activity not in interacted_users
Candidates(users_by_activity, interacted_users) ==
    LET keep(item) == item.key \notin interacted_users
    IN SelectSeq(users_by_activity, keep)

\* a variant of TakeTopN that slices from the wrong end: candidates[-top_n:]
TakeBottomN(candidates, n) ==
    SubSeq(candidates,
           IF n < Len(candidates) THEN Len(candidates) - n + 1 ELSE 1,
           Len(candidates))

\* candidates[:top_n]
TakeTopN(candidates, n) == Head_n(candidates, n)

\* a variant of ProductRows that scores an entry by its place in the list
ProductRowsScoredByRank(product_id, candidates, n) ==
    LET top == TakeTopN(candidates, n)
    IN [i \in 1..Len(top) |->
          [product_id |-> product_id,
           customer_id |-> top[i].key,
           score |-> Div(1, i),
           rank |-> i]]

\* enumerate(candidates[:top_n], 1)
ProductRows(product_id, candidates, n) ==
    LET top == TakeTopN(candidates, n)
    IN [i \in 1..Len(top) |->
          [product_id |-> product_id,
           customer_id |-> top[i].key,
           score |-> top[i].val.activity_score,
           rank |-> i]]

\* a variant of PrecomputeRows that keeps one growing set of interacted
\* users across the products instead of each product's own set
RECURSIVE PrecomputeRowsAccumulating(_, _, _)
PrecomputeRowsAccumulating(users_by_activity, products, n) ==
    IF products = <<>> THEN <<>>
    ELSE LET last == products[Len(products)]
             seen == UNION {products[i].val : i \in 1..Len(products)}
         IN PrecomputeRowsAccumulating(users_by_activity,
                                       SubSeq(products, 1, Len(products) - 1), n)
            \o ProductRows(last.key, Candidates(users_by_activity, seen), n)

RECURSIVE PrecomputeRows(_, _, _)
PrecomputeRows(users_by_activity, products, n) ==
    IF products = <<>> THEN <<>>
    ELSE ProductRows(Head(products).key,
                     Candidates(users_by_activity, Head(products).val), n)
         \o PrecomputeRows(users_by_activity, Tail(products), n)

\* pd.DataFrame(list of dicts): an empty list gives a frame with no columns
DataFrame(rows) ==
    [columns |-> IF rows = <<>> THEN {} ELSE CACHE_COLUMNS, rows |-> rows]

PrecomputedCache(ua, pi, n) ==
    DataFrame(PrecomputeRows(SortByActivity(ua), pi, n))

---------------------------------------------------------------------------
(* cli/train.py: one fresh ActivityBaseline, train, precompute, save.      *)
(* The offline job and the service run one after the other: the service    *)
(* reads the files at startup only.                                        *)

TrainOn(tables) ==
    /\ pc = "load"
    /\ phase = "down"
    /\ \E df \in tables :
         /\ train_df' = df
         /\ user_activity' = TrainedUsers(user_activity, df)
         /\ product_interactions' = TrainedProducts(product_interactions, df)
    /\ metadata' = TrainMetadata(user_activity', product_interactions')
    /\ pc' = "trained"
    /\ UNCHANGED <<top_n, recommendations_cache, file_vars, api_vars, score_vars, previous_run, inflight>>

Train == TrainOn(Datasets)
TrainEndToEnd == TrainOn(EndToEndDatasets)

Precompute ==
    /\ pc = "trained"
    /\ \E n \in 1..MaxTopN :
         /\ top_n' = n
         /\ recommendations_cache' =
                Some(PrecomputedCache(user_activity, product_interactions, n))
    /\ pc' = "precomputed"
    /\ UNCHANGED <<train_df, user_activity, product_interactions, metadata,
                   file_vars, api_vars, score_vars, previous_run, inflight>>

\* no file at the cache's path
NoFile == [exists |-> FALSE, readable |-> FALSE, df |-> [columns |-> {}, rows |-> <<>>]]

\* ActivityBaseline.save
Save ==
    /\ pc = "precomputed"
    /\ metadata_file' = [exists |-> TRUE, content |-> metadata]
    /\ cache_file' = IF recommendations_cache # None
                     THEN [exists |-> TRUE, readable |-> TRUE,
                           df |-> recommendations_cache[1]]
                     ELSE cache_file
    /\ pc' = "saved"
    /\ UNCHANGED <<train_df, top_n, user_activity, product_interactions,
                   recommendations_cache, metadata, api_vars, score_vars, previous_run, inflight>>

---------------------------------------------------------------------------
(* A caller that runs train and precompute_recommendations a second time,  *)
(* on the same ActivityBaseline or on a new one, keeping the first run's   *)
(* input and returned table.                                               *)

TrainOneDay == TrainOn(OneDayDatasets)
TrainCatalogue == TrainOn(CatalogueDatasets)

ThisRun(same_instance) ==
    [train_df |-> train_df, top_n |-> top_n,
     cache |-> recommendations_cache[1],
     user_activity |-> user_activity,
     same_instance |-> same_instance]

\* the caller goes on to call train again on the same instance: train
\* resets none of the instance's fields
Retrain ==
    /\ pc = "precomputed"
    /\ previous_run = None
    /\ previous_run' = Some(ThisRun(TRUE))
    /\ pc' = "load"
    /\ UNCHANGED <<train_df, top_n, user_activity, product_interactions,
                   recommendations_cache, metadata, file_vars, api_vars, score_vars, inflight>>

\* the caller constructs a new ActivityBaseline: __init__
FreshModel ==
    /\ pc = "precomputed"
    /\ previous_run = None
    /\ previous_run' = Some(ThisRun(FALSE))
    /\ pc' = "load"
    /\ user_activity' = <<>>
    /\ product_interactions' = <<>>
    /\ recommendations_cache' = None
    /\ metadata' = EmptyDict
    /\ UNCHANGED <<train_df, top_n, file_vars, api_vars, score_vars, inflight>>

---------------------------------------------------------------------------
(* src/api.py: JSON, startup *)

\* json_dumps of a response dict: the values in key order, each
\* recommendation likewise
json_dumps(obj) ==
    <<obj.product_id,
      [i \in 1..Len(obj.recommendations) |->
         <<obj.recommendations[i].customer_id,
           obj.recommendations[i].score,
           obj.recommendations[i].rank>>],
      obj.count,
      obj.note>>

json_loads(str) ==
    [product_id |-> str[1],
     recommendations |->
        [i \in 1..Len(str[2]) |->
           [customer_id |-> str[2][i][1], score |-> str[2][i][2], rank |-> str[2][i][3]]],
     count |-> str[3],
     note |-> str[4]]

\* a variant of GroupRecs that numbers the entries anew, by customer id
GroupRecsRenumbered(rows, product_id) ==
    LET inGroup(row) == row.product_id = product_id
        group == SelectSeq(rows, inGroup)
        ids == SortedAsc({group[i].customer_id : i \in 1..Len(group)})
        of(c) == group[CHOOSE i \in 1..Len(group) : group[i].customer_id = c]
    IN [i \in 1..Len(ids) |->
          [customer_id |-> ids[i], score |-> of(ids[i]).score, rank |-> i]]

\* the recs list built from one group of df.groupby('product_id')
GroupRecs(rows, product_id) ==
    LET inGroup(row) == row.product_id = product_id
        group == SelectSeq(rows, inGroup)
    IN [i \in 1..Len(group) |->
          [customer_id |-> group[i].customer_id,
           score |-> group[i].score,
           rank |-> group[i].rank]]

\* the pre-serialised response of one product
ProductResponse(rows, product_id) ==
    LET recs == GroupRecs(rows, product_id)
    IN json_dumps([product_id |-> product_id,
                   recommendations |-> recs,
                   count |-> Len(recs),
                   note |-> NOTE_REGULAR])

\* a variant of BuildCache with an entry for every product id, listed or not
BuildCacheAllProducts(rows) ==
    [p \in Products |-> ProductResponse(rows, p)]

\* the dict built by the loop over df.groupby('product_id')
BuildCache(rows) ==
    [p \in {rows[i].product_id : i \in 1..Len(rows)} |-> ProductResponse(rows, p)]

\* a variant of FirstScores without the groupby: one entry per table row
FirstScoresPerRow(rows) ==
    [k \in 1..Len(rows) |->
        [customer_id |-> rows[k].customer_id, score |-> rows[k].score]]

\* df.groupby('customer_id').agg({'score': 'first'}).reset_index():
\* one row per customer, ascending customer_id, with the score of the
\* customer's first row
FirstScores(rows) ==
    LET ids == SortedAsc({rows[i].customer_id : i \in 1..Len(rows)})
        first(c) == rows[Min({i \in 1..Len(rows) : rows[i].customer_id = c})]
    IN [k \in 1..Len(ids) |-> [customer_id |-> ids[k], score |-> first(ids[k]).score]]

\* .nlargest(k, 'score'): descending score, equal scores in order of
\* appearance (keep='first')
RECURSIVE InsertByScore(_, _)
InsertByScore(sorted, row) ==
    IF sorted = <<>> THEN <<row>>
    ELSE IF ScoreLess(Head(sorted).score, row.score)
         THEN <<row>> \o sorted
         ELSE <<Head(sorted)>> \o InsertByScore(Tail(sorted), row)

RECURSIVE SortByScore(_)
SortByScore(rows) ==
    IF rows = <<>> THEN <<>>
    ELSE InsertByScore(SortByScore(SubSeq(rows, 1, Len(rows) - 1)), rows[Len(rows)])

nlargest(k, rows) == Head_n(SortByScore(rows), k)

\* global_top_users: the users of the loaded table, ranked
GlobalTopUsers(rows) ==
    LET top == nlargest(FALLBACK_K, FirstScores(rows))
    IN [i \in 1..Len(top) |->
          [customer_id |-> top[i].customer_id, score |-> top[i].score, rank |-> i]]

FallbackResponse(rows) ==
    LET global_top_users == GlobalTopUsers(rows)
    IN json_dumps([product_id |-> 0,
                   recommendations |-> global_top_users,
                   count |-> Len(global_top_users),
                   note |-> NOTE_COLD_START])

\* the module-level app_state
InitialAppState ==
    [recommendations_cache |-> EmptyDict,
     global_top_users_json |-> <<>>,
     available_products |-> {},
     model_metadata |-> EmptyDict,
     health_response |-> EmptyDict,
     metrics_response |-> EmptyDict]

\* pd.read_parquet, df.groupby('product_id') and the row accesses raise when
\* the file or a column they name is missing
LoadRaises(file) ==
    \/ ~file.exists
    \/ ~file.readable
    \/ "product_id" \notin file.df.columns
    \/ /\ file.df.rows # <<>>
       /\ ~(CACHE_COLUMNS \subseteq file.df.columns)
    \/ ~({"customer_id", "score"} \subseteq file.df.columns)

LoadedMetadata(old) ==
    IF metadata_file.exists THEN metadata_file.content ELSE old

LoadedAppState(rows) ==
    LET cache == BuildCache(rows)
        model_metadata == LoadedMetadata(app_state.model_metadata)
    IN [recommendations_cache |-> cache,
        global_top_users_json |-> FallbackResponse(rows),
        available_products |-> DOMAIN cache,
        model_metadata |-> model_metadata,
        health_response |->
            [status |-> "healthy",
             model_loaded |-> TRUE,
             products |-> Cardinality(DOMAIN cache)],
        metrics_response |->
            [model_type |-> IF "model_type" \in DOMAIN model_metadata
                            THEN model_metadata.model_type
                            ELSE "activity_baseline",
             cached_recommendations |-> Len(rows),
             available_products |-> Cardinality(DOMAIN cache),
             optimization |-> "Pre-serialized JSON"]]

\* lifespan, up to the yield
Startup ==
    /\ phase = "down"
    /\ pc \in {"load", "saved"}
    /\ IF LoadRaises(cache_file)
       THEN /\ phase' = "failed"
            /\ UNCHANGED app_state
       ELSE /\ phase' = "serving"
            /\ app_state' = LoadedAppState(cache_file.df.rows)
    /\ UNCHANGED <<trainer_vars, file_vars, response, score_vars, previous_run, inflight>>

---------------------------------------------------------------------------
(* lifespan's startup, one assignment to app_state at a time.  The block   *)
(* has no await; the server calls handlers only between the yield and the  *)
(* shutdown code.                                                          *)

\* the assignments in program order: lines 91-92, 123, 132, 136, 142
StartupSteps == <<"cache", "fallback", "metadata", "health", "metrics">>

\* the statement that raises, if any: reading and grouping the table and
\* the row loop come before the first assignment, the fallback's groupby
\* and agg before the second
StepRaises(step, file) ==
    IF step = "cache"
    THEN \/ ~file.exists
         \/ ~file.readable
         \/ "product_id" \notin file.df.columns
         \/ /\ file.df.rows # <<>>
            /\ ~(CACHE_COLUMNS \subseteq file.df.columns)
    ELSE IF step = "fallback"
    THEN ~({"customer_id", "score"} \subseteq file.df.columns)
    ELSE FALSE

AssignStep(state, step, rows) ==
    IF step = "cache"
    THEN [state EXCEPT !.recommendations_cache = BuildCache(rows),
                       !.available_products = DOMAIN BuildCache(rows)]
    ELSE IF step = "fallback"
    THEN [state EXCEPT !.global_top_users_json = FallbackResponse(rows)]
    ELSE IF step = "metadata"
    THEN [state EXCEPT !.model_metadata = LoadedMetadata(state.model_metadata)]
    ELSE IF step = "health"
    THEN [state EXCEPT !.health_response =
                          [status |-> "healthy",
                           model_loaded |-> TRUE,
                           products |-> Cardinality(state.available_products)]]
    ELSE [state EXCEPT !.metrics_response =
                          [model_type |-> IF "model_type" \in DOMAIN state.model_metadata
                                          THEN state.model_metadata.model_type
                                          ELSE "activity_baseline",
                           cached_recommendations |-> Len(rows),
                           available_products |-> Cardinality(state.available_products),
                           optimization |-> "Pre-serialized JSON"]]

\* the step that follows position ph of the startup
StepAfter(ph) ==
    IF ph = "down" THEN StartupSteps[1]
    ELSE StartupSteps[(CHOOSE i \in 1..Len(StartupSteps) : StartupSteps[i] = ph) + 1]

\* a variant of PhaseAfter in which the lifespan yields once the fallback
\* is stored
PhaseAfterYieldingEarly(step) ==
    IF step \in {"fallback", StartupSteps[Len(StartupSteps)]} THEN "serving" ELSE step

\* the yield follows the last assignment
PhaseAfter(step) ==
    IF step = StartupSteps[Len(StartupSteps)] THEN "serving" ELSE step

StartupStep ==
    /\ \/ phase = "down" /\ pc \in {"load", "saved"}
       \/ \E i \in 1..(Len(StartupSteps) - 1) : phase = StartupSteps[i]
    /\ LET step == StepAfter(phase)
       IN IF StepRaises(step, cache_file)
          THEN /\ phase' = "failed"
               /\ UNCHANGED app_state
          ELSE /\ phase' = PhaseAfter(step)
               /\ app_state' = AssignStep(app_state, step, cache_file.df.rows)
    /\ UNCHANGED <<trainer_vars, file_vars, response, score_vars, previous_run, inflight>>

---------------------------------------------------------------------------
(* src/api.py: GET /recommend/{product_id}?n= *)

NoBody == [product_id |-> 0, recommendations |-> <<>>, count |-> 0, note |-> ""]

NoResponse ==
    [endpoint |-> "none", product_id |-> 0, n |-> 0, status |-> 0,
     detail |-> "", body |-> NoBody, read |-> {}]

\* a variant of ValidN without the upper bound
ValidNNoUpperBound(n) == MIN_N <= n

\* n: int = Query(default=10, ge=1, le=100), checked before the handler runs
ValidN(n) == MIN_N <= n /\ n <= MAX_N

\* a variant of SliceTo that keeps the last n entries
SliceToTail(resp, n, count) ==
    IF n < count
    THEN [resp EXCEPT !.recommendations =
                          SubSeq(resp.recommendations, count - n + 1, count),
                      !.count = n]
    ELSE resp

\* a variant of SliceTo that leaves count as it was
SliceKeepCount(resp, n, count) ==
    IF n < count
    THEN [resp EXCEPT !.recommendations = SubSeq(resp.recommendations, 1, n)]
    ELSE resp

\* the slice both branches apply: if n < count, keep the first n
SliceTo(resp, n, count) ==
    IF n < count
    THEN [resp EXCEPT !.recommendations = SubSeq(resp.recommendations, 1, n),
                      !.count = n]
    ELSE resp

\* a variant of FallbackBranch that returns the stored fallback's own id
FallbackBranchStoredId(state, product_id, n) ==
    LET fallback == json_loads(state.global_top_users_json)
    IN SliceTo(fallback, n, Len(fallback.recommendations))

\* the cold-start branch
FallbackBranch(state, product_id, n) ==
    LET fallback == [json_loads(state.global_top_users_json)
                        EXCEPT !.product_id = product_id]
    IN SliceTo(fallback, n, Len(fallback.recommendations))

\* the existing-product branch
ExistingBranch(state, product_id, n) ==
    LET resp == json_loads(state.recommendations_cache[product_id])
    IN SliceTo(resp, n, resp.count)

\* `if not recommendations_cache`
ModelNotLoaded(cache) == DOMAIN cache = {}

\* the handler: what is returned, and which app_state entries were read
get_recommendations(state, product_id, n) ==
    LET req == [NoResponse EXCEPT !.endpoint = "recommend",
                                  !.product_id = product_id, !.n = n]
    IN IF ~ValidN(n)
       THEN [req EXCEPT !.status = 422, !.detail = "validation error"]
       ELSE IF ModelNotLoaded(state.recommendations_cache)
       THEN [req EXCEPT !.status = 503, !.detail = "Model not loaded",
                        !.read = {"recommendations_cache"}]
       ELSE IF product_id \notin DOMAIN state.recommendations_cache
       THEN [req EXCEPT !.status = 200,
                        !.body = FallbackBranch(state, product_id, n),
                        !.read = {"recommendations_cache", "global_top_users_json"}]
       ELSE [req EXCEPT !.status = 200,
                        !.body = ExistingBranch(state, product_id, n),
                        !.read = {"recommendations_cache"}]

\* a variant of StateAfterRecommend in which the cold-start branch slices
\* the stored fallback itself
StateAfterRecommendInPlace(state, product_id, n) ==
    IF /\ ValidN(n)
       /\ ~ModelNotLoaded(state.recommendations_cache)
       /\ product_id \notin DOMAIN state.recommendations_cache
    THEN [state EXCEPT !.global_top_users_json =
                           json_dumps(FallbackBranch(state, product_id, n))]
    ELSE state

\* a variant of StateAfterRecommend in which the cold-start branch keeps
\* its answer in the cache under the requested id
StateAfterRecommendMemoizing(state, product_id, n) ==
    IF /\ ValidN(n)
       /\ ~ModelNotLoaded(state.recommendations_cache)
       /\ product_id \notin DOMAIN state.recommendations_cache
    THEN LET cache == state.recommendations_cache
             answer == json_dumps(FallbackBranch(state, product_id, n))
         IN [state EXCEPT !.recommendations_cache =
                [p \in DOMAIN cache \cup {product_id} |->
                    IF p = product_id THEN answer ELSE cache[p]]]
    ELSE state

\* app_state after the handler: `fallback` and `response` are fresh objects
\* made by json_loads, and the handler assigns to nothing else
StateAfterRecommend(state, product_id, n) == state

RequestProducts == Products \cup {UnknownProduct}
RequestNs == (0..(MaxTopN + 1)) \cup {MAX_N, MAX_N + 1}

Recommend ==
    /\ phase = "serving"
    /\ \E product_id \in RequestProducts, n \in RequestNs :
         /\ response' = get_recommendations(app_state, product_id, n)
         /\ app_state' = StateAfterRecommend(app_state, product_id, n)
    /\ UNCHANGED <<trainer_vars, file_vars, phase, score_vars, previous_run, inflight>>

---------------------------------------------------------------------------
(* Concurrent GET /recommend requests in one worker.  The server accepts   *)
(* and validates a request, and later awaits the handler coroutine; other  *)
(* requests may be accepted in between, and accepted requests run in any   *)
(* order.  The handler body has no await: once scheduled it runs to its    *)
(* return without another coroutine running in between; it takes no lock.  *)

MaxInflight == 2

\* the n of the concurrent requests: the two ends of the accepted range
ConcurrentNs == {MIN_N, MAX_N}
Requests == [product_id : RequestProducts, n : ConcurrentNs]

Accept ==
    /\ phase = "serving"
    /\ Cardinality(inflight) < MaxInflight
    /\ \E r \in Requests :
         /\ r \notin inflight
         /\ inflight' = inflight \cup {r}
    /\ UNCHANGED <<trainer_vars, file_vars, api_vars, score_vars, previous_run>>

RunHandler(r) ==
    /\ phase = "serving"
    /\ r \in inflight
    /\ response' = get_recommendations(app_state, r.product_id, r.n)
    /\ app_state' = StateAfterRecommend(app_state, r.product_id, r.n)
    /\ inflight' = inflight \ {r}
    /\ UNCHANGED <<trainer_vars, file_vars, phase, score_vars, previous_run>>

RunOne == \E r \in Requests : RunHandler(r)

---------------------------------------------------------------------------
(* src/api.py: GET /health, GET /metrics, GET /products/sample, shutdown *)

\* dict.get(key, default)
DictGetOr(state, key, default) == IF key \in DOMAIN state THEN state[key] ELSE default

UNHEALTHY == [status |-> "unhealthy", model_loaded |-> FALSE, products |-> 0]
UNKNOWN_METRICS ==
    [model_type |-> "unknown", cached_recommendations |-> 0,
     available_products |-> 0, optimization |-> "Pre-serialized JSON"]

health(state) ==
    [NoResponse EXCEPT !.endpoint = "health", !.status = 200,
                       !.body = DictGetOr(state, "health_response", UNHEALTHY),
                       !.read = {"health_response"}]

get_metrics(state) ==
    [NoResponse EXCEPT !.endpoint = "metrics", !.status = 200,
                       !.body = DictGetOr(state, "metrics_response", UNKNOWN_METRICS),
                       !.read = {"metrics_response"}]

\* a variant of Samples that draws with replacement, as random.choices does
SamplesWithReplacement(available_products, n) ==
    [1..Min({n, Cardinality(available_products)}) -> available_products]

\* random.sample(list(available_products), min(n, len(available_products))):
\* the lists it can return, elements drawn without replacement, any order
Samples(available_products, n) ==
    {sample \in [1..Min({n, Cardinality(available_products)}) -> available_products] :
        \A i \in DOMAIN sample, j \in DOMAIN sample : i # j => sample[i] # sample[j]}

get_sample_products(state, n, sample) ==
    LET req == [NoResponse EXCEPT !.endpoint = "sample", !.n = n]
    IN IF ~ValidN(n)
       THEN [req EXCEPT !.status = 422, !.detail = "validation error"]
       ELSE IF state.available_products = {}
       THEN [req EXCEPT !.status = 503, !.detail = "No products available",
                        !.read = {"available_products"}]
       ELSE [req EXCEPT !.status = 200,
                        !.body = [sample_products |-> sample,
                                  total_available |-> Cardinality(state.available_products)],
                        !.read = {"available_products"}]

Health ==
    /\ phase = "serving"
    /\ response' = health(app_state)
    /\ UNCHANGED <<trainer_vars, file_vars, phase, app_state, score_vars, previous_run, inflight>>

Metrics ==
    /\ phase = "serving"
    /\ response' = get_metrics(app_state)
    /\ UNCHANGED <<trainer_vars, file_vars, phase, app_state, score_vars, previous_run, inflight>>

SampleProducts ==
    /\ phase = "serving"
    /\ \E n \in RequestNs :
         \E sample \in Samples(app_state.available_products, n) :
            response' = get_sample_products(app_state, n, sample)
    /\ UNCHANGED <<trainer_vars, file_vars, phase, app_state, score_vars, previous_run, inflight>>

\* lifespan after the yield: app_state.clear()
Shutdown ==
    /\ phase = "serving"
    /\ phase' = "stopped"
    /\ app_state' = EmptyDict
    /\ UNCHANGED <<trainer_vars, file_vars, response, score_vars, previous_run, inflight>>

---------------------------------------------------------------------------
(* A caller that saves a model, loads the saved files into a new           *)
(* ActivityBaseline and asks it for recommendations.                       *)

\* save called right after train: recommendations_cache is still None and
\* only the metadata is written
SaveBeforePrecompute ==
    /\ pc = "trained"
    /\ metadata_file' = [exists |-> TRUE, content |-> metadata]
    /\ cache_file' = IF recommendations_cache # None
                     THEN [exists |-> TRUE, readable |-> TRUE,
                           df |-> recommendations_cache[1]]
                     ELSE cache_file
    /\ pc' = "saved"
    /\ UNCHANGED <<train_df, top_n, user_activity, product_interactions,
                   recommendations_cache, metadata, api_vars, score_vars,
                   previous_run, inflight>>

\* ActivityBaseline().load(models_dir): open(metadata_file) raises when the
\* file is missing; the cache is read only `if cache_file.exists()`
Load ==
    /\ pc = "saved"
    /\ phase = "down"
    /\ IF ~metadata_file.exists \/ (cache_file.exists /\ ~cache_file.readable)
       THEN /\ pc' = "load_raised"
            /\ UNCHANGED <<user_activity, product_interactions,
                           recommendations_cache, metadata>>
       ELSE /\ pc' = "loaded"
            /\ user_activity' = <<>>
            /\ product_interactions' = <<>>
            /\ metadata' = metadata_file.content
            /\ recommendations_cache' =
                  IF cache_file.exists THEN Some(cache_file.df) ELSE None
    /\ UNCHANGED <<train_df, top_n, file_vars, api_vars, score_vars,
                   previous_run, inflight>>

NO_CACHE_ERROR == "No recommendations cache. Run precompute_recommendations() first."

\* ActivityBaseline.get_recommendations: the call's outcome, as a response
ModelRecommendations(cache, product_id, n) ==
    LET call == [NoResponse EXCEPT !.endpoint = "ActivityBaseline.get_recommendations",
                                   !.product_id = product_id, !.n = n]
    IN IF cache = None
       THEN [call EXCEPT !.detail = NO_CACHE_ERROR]
       ELSE IF ~(CACHE_COLUMNS \subseteq cache[1].columns)
       THEN [call EXCEPT !.detail = "KeyError"]
       ELSE LET ofProduct(row) == row.product_id = product_id
                recs == Head_n(SelectSeq(cache[1].rows, ofProduct), n)
            IN [call EXCEPT
                  !.body = [NoBody EXCEPT
                              !.recommendations =
                                 [i \in 1..Len(recs) |->
                                    [customer_id |-> recs[i].customer_id,
                                     score |-> recs[i].score,
                                     rank |-> recs[i].rank]],
                              !.count = Len(recs)]]

GetModelRecommendations ==
    /\ pc = "loaded"
    /\ \E product_id \in RequestProducts, n \in 1..MaxTopN :
         response' = ModelRecommendations(recommendations_cache, product_id, n)
    /\ UNCHANGED <<trainer_vars, file_vars, phase, app_state, score_vars,
                   previous_run, inflight>>

---------------------------------------------------------------------------
(* The environment: an operator may put a table in place of the trained one. *)

\* a parquet table with the cache's schema and no rows
EmptyTable == [columns |-> CACHE_COLUMNS, rows |-> <<>>]

ProvisionEmptyTable ==
    /\ pc = "load"
    /\ phase = "down"
    /\ ~cache_file.exists
    /\ cache_file' = [exists |-> TRUE, readable |-> TRUE, df |-> EmptyTable]
    /\ UNCHANGED <<trainer_vars, metadata_file, api_vars, score_vars, previous_run, inflight>>

\* tables that lack one column of the cache's schema, with no row or with
\* one row of the remaining columns
OneRow(columns) ==
    [c \in columns |-> IF c = "score" THEN Div(1, 1) ELSE 1]
TablesLacking(c) ==
    LET columns == CACHE_COLUMNS \ {c}
    IN {[columns |-> columns, rows |-> <<>>],
        [columns |-> columns, rows |-> <<OneRow(columns)>>]}
MalformedTables == UNION {TablesLacking(c) : c \in CACHE_COLUMNS}

ProvisionMalformedTable ==
    /\ pc = "load"
    /\ phase = "down"
    /\ ~cache_file.exists
    /\ \E df \in MalformedTables :
         cache_file' = [exists |-> TRUE, readable |-> TRUE, df |-> df]
    /\ UNCHANGED <<trainer_vars, metadata_file, api_vars, score_vars, previous_run, inflight>>

\* a file that pd.read_parquet cannot read
ProvisionUnreadableFile ==
    /\ pc = "load"
    /\ phase = "down"
    /\ ~cache_file.exists
    /\ cache_file' = [NoFile EXCEPT !.exists = TRUE]
    /\ UNCHANGED <<trainer_vars, metadata_file, api_vars, score_vars, previous_run, inflight>>

---------------------------------------------------------------------------
(* The scoring expression of train's user loop, on the argument pairs the  *)
(* loop can meet: a user with no row in the window was last seen more than *)
(* RecencyDays before the reference date, any other user at most           *)
(* RecencyDays before it.                                                  *)

NoScoring == [recent_count |-> 0, d1 |-> 0, d2 |-> 0]

\* recent_count and days_since as one iteration of the loop computes them
LoopCanMeet(recent_count, days_since) ==
    IF recent_count = 0 THEN days_since > RecencyDays ELSE days_since <= RecencyDays

ScoreInputs ==
    {x \in [recent_count : 0..MaxRows,
            d1 : 0..(RecencyDays + 2),
            d2 : 0..(RecencyDays + 2)] :
        /\ LoopCanMeet(x.recent_count, x.d1)
        /\ LoopCanMeet(x.recent_count, x.d2)}

\* line 56, evaluated for one recent_count and two values of days_since
ScorePair ==
    /\ score_out = None
    /\ score_out' = Some(<<ActivityScore(score_in.recent_count, score_in.d1),
                           ActivityScore(score_in.recent_count, score_in.d2)>>)
    /\ UNCHANGED <<trainer_vars, file_vars, api_vars, score_in, previous_run, inflight>>

---------------------------------------------------------------------------

Init ==
    /\ pc = "load"
    /\ train_df = {}
    /\ top_n = 0
    /\ user_activity = <<>>
    /\ product_interactions = <<>>
    /\ recommendations_cache = None
    /\ metadata = EmptyDict
    /\ cache_file = NoFile
    /\ metadata_file = [exists |-> FALSE, content |-> EmptyDict]
    /\ phase = "down"
    /\ app_state = InitialAppState
    /\ response = NoResponse
    /\ score_in = NoScoring
    /\ score_out = None
    /\ previous_run = None
    /\ inflight = {}

\* the offline job followed by the service
Next ==
    \/ TrainEndToEnd
    \/ Precompute
    \/ Save
    \/ ProvisionEmptyTable
    \/ Startup
    \/ Recommend

Spec == Init /\ [][Next]_vars

\* the offline job alone, over every table
NextOffline ==
    \/ Train
    \/ Precompute
    \/ Save

SpecOffline == Init /\ [][NextOffline]_vars

\* the whole service: the artifact from the training job or from the
\* operator, startup, every endpoint, shutdown
NextService ==
    \/ TrainOneDay
    \/ Precompute
    \/ Save
    \/ ProvisionEmptyTable
    \/ ProvisionMalformedTable
    \/ ProvisionUnreadableFile
    \/ Startup
    \/ Recommend
    \/ Health
    \/ Metrics
    \/ SampleProducts
    \/ Shutdown

SpecService == Init /\ [][NextService]_vars

\* the service under concurrent /recommend requests
NextConcurrent ==
    \/ TrainOneDay
    \/ Precompute
    \/ Save
    \/ Startup
    \/ Accept
    \/ RunOne

SpecConcurrent == Init /\ [][NextConcurrent]_vars

\* the service with its startup taken one assignment at a time
NextLifespan ==
    \/ TrainOneDay
    \/ Precompute
    \/ Save
    \/ ProvisionEmptyTable
    \/ ProvisionMalformedTable
    \/ StartupStep
    \/ Recommend
    \/ Health
    \/ Metrics
    \/ SampleProducts
    \/ Shutdown

SpecLifespan == Init /\ [][NextLifespan]_vars

\* the offline job and the service, over a catalogue of three products
NextCatalogue ==
    \/ TrainCatalogue
    \/ Precompute
    \/ Save
    \/ Startup
    \/ Recommend

SpecCatalogue == Init /\ [][NextCatalogue]_vars

\* save, then load into a new instance
NextLoad ==
    \/ TrainOneDay
    \/ Precompute
    \/ Save
    \/ SaveBeforePrecompute
    \/ Load
    \/ GetModelRecommendations

SpecLoad == Init /\ [][NextLoad]_vars

\* train and precompute_recommendations, run twice
NextRetrain ==
    \/ TrainOneDay
    \/ Precompute
    \/ Retrain
    \/ FreshModel

SpecRetrain == Init /\ [][NextRetrain]_vars

\* the scoring expression alone
InitScore ==
    /\ pc = "load"
    /\ train_df = {}
    /\ top_n = 0
    /\ user_activity = <<>>
    /\ product_interactions = <<>>
    /\ recommendations_cache = None
    /\ metadata = EmptyDict
    /\ cache_file = NoFile
    /\ metadata_file = [exists |-> FALSE, content |-> EmptyDict]
    /\ phase = "down"
    /\ app_state = InitialAppState
    /\ response = NoResponse
    /\ score_in \in ScoreInputs
    /\ score_out = None
    /\ previous_run = None
    /\ inflight = {}

NextScore == ScorePair

SpecScore == InitScore /\ [][NextScore]_vars

---------------------------------------------------------------------------
(* Properties.  The quantities they speak of are defined here from the     *)
(* training table and the saved table, not from the operators above.       *)

CacheRows == IF recommendations_cache = None THEN <<>> ELSE recommendations_cache[1].rows
Precomputed == pc \in {"precomputed", "saved"}

\* the users with at least one interaction with p in df
InteractionSet(df, p) == {u \in Users : \E r \in df : r.customer_id = u /\ r.product_id = p}
TrainingUsers(df) == {u \in Users : \E r \in df : r.customer_id = u}
TrainingProducts(df) == {q \in Products : \E r \in df : r.product_id = q}

\* the precomputed list of product p, in cache order
ListOf(p) ==
    LET ofP(row) == row.product_id = p
    IN SelectSeq(CacheRows, ofP)

ScoreOf(u) == DictGet(user_activity, u).activity_score

\* C1: after train and precompute_recommendations, no customer listed for a
\* product in the recommendations cache has interacted with that product in
\* the training table.
C1_NoInteractedUserListed ==
    Precomputed =>
        \A i \in 1..Len(CacheRows) :
            CacheRows[i].customer_id
                \notin InteractionSet(train_df, CacheRows[i].product_id)

\* a product's list was cut by the exclusion: an interacting user outscores
\* a listed one
C1_Witness ==
    /\ Precomputed
    /\ \E i \in 1..Len(CacheRows) :
          \E u \in InteractionSet(train_df, CacheRows[i].product_id) :
              ScoreLess(CacheRows[i].score, ScoreOf(u))

\* the users that survive the exclusion for p
Survivors(p) == TrainingUsers(train_df) \ InteractionSet(train_df, p)

\* C2: the precomputed list of every training product is the best
\* min(N, s) of its s surviving users: it lists distinct survivors with
\* their activity scores in non-increasing order, it has min(N, s) entries,
\* and no omitted survivor has a strictly higher score than a listed one.
C2_ListIsTopOfSurvivors ==
    Precomputed =>
        \A p \in TrainingProducts(train_df) :
            LET L == ListOf(p)
                s == Cardinality(Survivors(p))
                listed == {L[i].customer_id : i \in 1..Len(L)}
            IN /\ Len(L) = IF top_n < s THEN top_n ELSE s
               /\ Cardinality(listed) = Len(L)
               /\ listed \subseteq Survivors(p)
               /\ \A i \in 1..Len(L) : L[i].score = ScoreOf(L[i].customer_id)
               /\ \A i \in 1..Len(L), j \in 1..Len(L) :
                     i < j => ScoreLeq(L[j].score, L[i].score)
               /\ \A u \in Survivors(p) \ listed, i \in 1..Len(L) :
                     ScoreLeq(ScoreOf(u), L[i].score)

\* a product's list is cut at N and a lower-scored survivor is left out
C2_Witness ==
    /\ Precomputed
    /\ \E p \in TrainingProducts(train_df) :
          /\ Len(ListOf(p)) = top_n
          /\ \E u \in Survivors(p) :
                /\ \A i \in 1..Len(ListOf(p)) : ListOf(p)[i].customer_id # u
                /\ ScoreLess(ScoreOf(u), ListOf(p)[top_n].score)

\* C10: after train, every user of the training table has
\* activity_score = recent_count / (days_since + 1) >= 0, with the reference
\* time the table's latest event_date, recent_count the user's rows dated
\* at or after reference - RecencyDays, and days_since the days from the
\* user's latest row to the reference, never negative.
C10_ActivityScoreFormula ==
    pc # "load" =>
        \A u \in TrainingUsers(train_df) :
            LET reference == CHOOSE d \in Days :
                                /\ \E r \in train_df : r.event_date = d
                                /\ \A r \in train_df : r.event_date <= d
                mine == {r \in train_df : r.customer_id = u}
                latest == CHOOSE d \in Days :
                                /\ \E r \in mine : r.event_date = d
                                /\ \A r \in mine : r.event_date <= d
                info == DictGet(user_activity, u)
            IN /\ u \in DictKeys(user_activity)
               /\ info.recent_count =
                    Cardinality({r \in mine : r.event_date >= reference - RecencyDays})
               /\ info.days_since = reference - latest
               /\ info.days_since >= 0
               /\ info.activity_score.den > 0
               /\ info.activity_score.num >= 0
               /\ info.activity_score.num * (info.days_since + 1)
                    = info.recent_count * info.activity_score.den

\* a user inside the window but not seen on the reference day, with a row
\* outside the window as well
C10_Witness ==
    /\ pc = "trained"
    /\ \E u \in DictKeys(user_activity) :
          LET info == DictGet(user_activity, u)
          IN /\ info.days_since > 0
             /\ info.recent_count > 0
             /\ info.recent_count < Cardinality({r \in train_df : r.customer_id = u})

\* the rows of user u dated inside the window that ends on the table's
\* latest day and spans RecencyDays
RowsInWindow(df, u) ==
    {r \in df : /\ r.customer_id = u
                /\ \A x \in df : r.event_date >= x.event_date - RecencyDays}

\* C12: for every user scored by train, activity_score is 0 if and only if
\* recent_count is 0, and every user with at least one interaction inside
\* the recency window has a strictly positive score.
C12_ZeroScoreIffNoRecentInteraction ==
    pc # "load" =>
        \A u \in TrainingUsers(train_df) :
            LET info == DictGet(user_activity, u)
            IN /\ (info.activity_score.num = 0) <=> (info.recent_count = 0)
               /\ RowsInWindow(train_df, u) # {} =>
                     /\ info.activity_score.num > 0
                     /\ info.activity_score.den > 0

\* one user scored 0, another whose only row is on the window's first day
C12_Witness ==
    /\ pc = "trained"
    /\ \E u \in TrainingUsers(train_df), v \in TrainingUsers(train_df) :
          /\ DictGet(user_activity, u).activity_score.num = 0
          /\ DictGet(user_activity, v).days_since = RecencyDays
          /\ Cardinality(GroupRows(train_df, v)) = 1

\* a second run has returned, on the input and top_n of the first
SecondRunDone == pc = "precomputed" /\ previous_run # None
SameInput ==
    /\ previous_run[1].train_df = train_df
    /\ previous_run[1].top_n = top_n

\* C13: train followed by precompute_recommendations, run twice on the same
\* interaction table with the same recency_days and top_n, on a fresh model
\* or a second time on the same instance, yields the same cache rows
\* (product_id, customer_id, score, rank) in the same order.
C13_SameInputSameCache ==
    (SecondRunDone /\ SameInput) => recommendations_cache[1] = previous_run[1].cache

\* a second run on the same instance and the same input, whose table has
\* two rows of one product with equal scores
C13_Witness ==
    /\ SecondRunDone
    /\ SameInput
    /\ previous_run[1].same_instance
    /\ \E i \in 1..Len(CacheRows), j \in 1..Len(CacheRows) :
          /\ i < j
          /\ CacheRows[i].product_id = CacheRows[j].product_id
          /\ CacheRows[i].score = CacheRows[j].score

\* C14: whenever two users of one product's precomputed list have equal
\* activity scores, the one with the smaller user id has the smaller rank,
\* on a first training run and after earlier train calls on the same
\* instance.  A user that an earlier train call put into user_activity
\* keeps its place before a smaller id that a later call adds, and the
\* stable sort keeps that order among equal scores.
C14_TiesRankedByAscendingUserId ==
    Precomputed =>
        \A i \in 1..Len(CacheRows), j \in 1..Len(CacheRows) :
            (/\ CacheRows[i].product_id = CacheRows[j].product_id
             /\ CacheRows[i].score = CacheRows[j].score
             /\ CacheRows[i].customer_id < CacheRows[j].customer_id)
            => CacheRows[i].rank < CacheRows[j].rank

\* the two scores of a scoring that has been computed
Scored == score_out # None
Score1 == score_out[1][1]
Score2 == score_out[1][2]

\* C11 as stated: for every recent_count train can produce, 0 included,
\* d1 < d2 implies score(recent_count, d1) > score(recent_count, d2).
C11_StrictlyDecreasingForEveryCount ==
    (Scored /\ score_in.d1 < score_in.d2) => ScoreLess(Score2, Score1)

\* C11, amended: for every recent_count >= 1, d1 < d2 implies
\* score(recent_count, d1) > score(recent_count, d2); for recent_count = 0
\* the score is 0 whatever days_since is.
C11_StrictlyDecreasingForPositiveCount ==
    (Scored /\ score_in.d1 < score_in.d2) =>
        IF score_in.recent_count >= 1
        THEN ScoreLess(Score2, Score1)
        ELSE Score1.num = 0 /\ Score2.num = 0

\* two interactions in the window, scored one day apart
C11_Witness ==
    /\ Scored
    /\ score_in.recent_count = 2
    /\ score_in.d2 = score_in.d1 + 1

---------------------------------------------------------------------------
(* Properties of GET /recommend *)

Requested == response.endpoint = "recommend"
Served == Requested /\ response.status = 200
Recs == response.body.recommendations
StoredFallback == json_loads(app_state.global_top_users_json)
IsCached(p) == p \in DOMAIN app_state.recommendations_cache
\* the service answers from a table that a training run saved
TrainedServing == phase = "serving" /\ DOMAIN app_state.recommendations_cache # {}

\* the saved table's rows of product p, and its distinct customers
FileRowsOf(p) ==
    LET ofP(row) == row.product_id = p
    IN SelectSeq(cache_file.df.rows, ofP)
FileCustomers ==
    {cache_file.df.rows[i].customer_id : i \in 1..Len(cache_file.df.rows)}

\* C3: in every list GET /recommend returns, for a cached product and for
\* the fallback alike, the ranks are 1, 2, ..., len(list) in list order and
\* the scores are non-increasing in list order.
C3_RanksDenseScoresNonIncreasing ==
    Served =>
        /\ \A i \in 1..Len(Recs) : Recs[i].rank = i
        /\ \A i \in 1..Len(Recs), j \in 1..Len(Recs) :
              i < j => ScoreLeq(Recs[j].score, Recs[i].score)

\* a returned list of two entries with different scores, cut from a longer
\* fallback list
C3_Witness ==
    /\ Served
    /\ Len(Recs) = 2
    /\ ScoreLess(Recs[2].score, Recs[1].score)
    /\ ~IsCached(response.product_id)
    /\ StoredFallback.count > 2

\* the candidates on offer for the requested product: its rows in the saved
\* table, or on a miss the table's customers, at most FALLBACK_K of them
Available(p) ==
    IF FileRowsOf(p) # <<>> THEN Len(FileRowsOf(p))
    ELSE IF Cardinality(FileCustomers) < FALLBACK_K
         THEN Cardinality(FileCustomers) ELSE FALLBACK_K

\* C4: every served GET /recommend with 1 <= n <= 100 has count equal to
\* the length of its list and to min(n, available); the list never has more
\* than n entries.
C4_CountIsMinOfNAndAvailable ==
    Served =>
        /\ response.body.count = Len(Recs)
        /\ response.body.count =
              IF response.n < Available(response.product_id)
              THEN response.n ELSE Available(response.product_id)
        /\ Len(Recs) <= response.n

\* a cached product asked for fewer entries than it has
C4_Witness ==
    /\ Served
    /\ IsCached(response.product_id)
    /\ response.n < Len(FileRowsOf(response.product_id))

\* C5: after a successful startup, a request with n in range for a product
\* that is no key of the cache is answered with the first min(n, len)
\* entries of the stored fallback list and the cold-start note, never with
\* an error.  The empty-cache check of the handler refutes it.
C5_ColdStartAlwaysServed ==
    (/\ phase = "serving"
     /\ Requested
     /\ ValidN(response.n)
     /\ ~IsCached(response.product_id))
    => /\ response.status = 200
       /\ response.body.note = NOTE_COLD_START
       /\ Recs = Head_n(StoredFallback.recommendations, response.n)

\* C6: while the service is serving, also from a table that yields no
\* cached product, a request is rejected only when n is outside [1, 100].
\* The handler's 503 for an empty cache refutes it.
C6_RejectedOnlyForInvalidN ==
    (phase = "serving" /\ Requested) =>
        /\ response.status # 200 => ~ValidN(response.n)
        /\ ValidN(response.n) => response.status = 200

\* C7: a request with n < 1 or n > 100 is rejected with status 422 before
\* the cache is consulted: no app_state entry is read and no recommendation
\* is returned.
C7_InvalidNRejectedBeforeLookup ==
    (Requested /\ (response.n < 1 \/ response.n > 100)) =>
        /\ response.status = 422
        /\ response.read = {}
        /\ Recs = <<>>

\* n = 101 for a cached product
C7_Witness ==
    /\ Requested
    /\ response.n > 100
    /\ IsCached(response.product_id)
    /\ response.status = 422

\* C8: the stored fallback list holds the min(100, #users) best-scored of
\* ALL users scored in training, in descending score order.  The list is
\* built from the customers of the saved table only, which refutes it.
C8_FallbackIsTopOfAllScoredUsers ==
    TrainedServing =>
        LET F == StoredFallback.recommendations
            scored == DictKeys(user_activity)
            listed == {F[i].customer_id : i \in 1..Len(F)}
        IN /\ Len(F) = IF Cardinality(scored) < 100 THEN Cardinality(scored) ELSE 100
           /\ listed \subseteq scored
           /\ \A i \in 1..Len(F) : F[i].score = ScoreOf(F[i].customer_id)
           /\ \A i \in 1..Len(F), j \in 1..Len(F) :
                 i < j => ScoreLeq(F[j].score, F[i].score)
           /\ \A u \in scored \ listed, i \in 1..Len(F) :
                 ScoreLeq(ScoreOf(u), F[i].score)

\* C9: a training product none of whose scored users survives the exclusion
\* is answered with an empty list, count 0 and the regular note, not with
\* the fallback.  The product has no row in the table, hence no cache key,
\* and the handler takes the cold-start branch: this refutes it.
C9_NoSurvivorsGivesEmptyRegularList ==
    (/\ TrainedServing
     /\ Requested
     /\ ValidN(response.n)
     /\ response.product_id \in TrainingProducts(train_df)
     /\ Survivors(response.product_id) = {})
    => /\ response.status = 200
       /\ Recs = <<>>
       /\ response.body.count = 0
       /\ response.body.note = NOTE_REGULAR

---------------------------------------------------------------------------
(* Properties of the service as a whole *)

\* the artifact is missing, unreadable, or lacks a column of the schema
\* (product_id, customer_id, score, rank)
ArtifactInvalid ==
    \/ ~cache_file.exists
    \/ ~cache_file.readable
    \/ ~(CACHE_COLUMNS \subseteq cache_file.df.columns)

\* every entry of app_state holds what startup assigns to it
FullyPopulated ==
    /\ DOMAIN app_state = DOMAIN InitialAppState
    /\ app_state.available_products = DOMAIN app_state.recommendations_cache
    /\ app_state.global_top_users_json # <<>>
    /\ DOMAIN app_state.health_response # {}
    /\ DOMAIN app_state.metrics_response # {}

\* C15: if the cache artifact is missing, unreadable or lacks a required
\* column, startup fails and no request is ever answered; and whenever the
\* service serves, every part of the cache state is populated.  A table
\* with no rows and no rank column passes startup: only the row loop reads
\* rank, and it has nothing to iterate.
C15_InvalidArtifactFailsStartup ==
    /\ (phase # "down" /\ ArtifactInvalid) =>
          /\ phase = "failed"
          /\ response = NoResponse
    /\ phase = "serving" => FullyPopulated

\* C16: no request handler (GET /recommend on a hit or a miss, /health,
\* /metrics, /products/sample) changes the loaded cache state: across every
\* step taken while the service serves, the per-product responses, the
\* stored fallback (product_id, recommendations and count included), the
\* available-product set and the metadata keep their values.
C16_HandlersLeaveCacheStateUnchanged ==
    [][(phase = "serving" /\ phase' = "serving") =>
          /\ app_state'.recommendations_cache = app_state.recommendations_cache
          /\ app_state'.global_top_users_json = app_state.global_top_users_json
          /\ app_state'.available_products = app_state.available_products
          /\ app_state'.model_metadata = app_state.model_metadata]_vars

\* a cold-start request was answered with a slice of the fallback under the
\* requested id, and the stored fallback is still whole, under id 0
C16_Witness ==
    /\ phase = "serving"
    /\ Served
    /\ ~IsCached(response.product_id)
    /\ response.body.product_id # 0
    /\ response.body.count < StoredFallback.count
    /\ StoredFallback.product_id = 0

\* the response the request of `response` gets when it runs alone on the
\* state that startup loads from the artifact
AloneResponse ==
    get_recommendations(LoadedAppState(cache_file.df.rows),
                        response.product_id, response.n)

C18_ResponseCarriesRequestedProductId ==
    Served => response.body.product_id = response.product_id

\* a cold-start answer for an id other than the stored fallback's
C18_Witness ==
    /\ Served
    /\ ~IsCached(response.product_id)
    /\ response.body.note = NOTE_COLD_START
    /\ StoredFallback.product_id # response.product_id

\* rows of the artifact as the entries of a response
AsEntries(rows) ==
    [i \in 1..Len(rows) |->
        [customer_id |-> rows[i].customer_id, score |-> rows[i].score, rank |-> rows[i].rank]]

\* C19: for a product with a cache entry, the recommendations returned for
\* (product_id, n) are the first min(n, L) rows of that product in the
\* persisted artifact, in artifact row order, with the same user id, score
\* and rank, L being the number of the product's rows.
C19_HitReturnsArtifactPrefix ==
    (Served /\ IsCached(response.product_id)) =>
        LET mine == FileRowsOf(response.product_id)
            L == Len(mine)
        IN Recs = AsEntries(SubSeq(mine, 1, IF response.n < L THEN response.n ELSE L))

\* a cached product with two rows of different scores, returned whole
C19_Witness ==
    /\ Served
    /\ IsCached(response.product_id)
    /\ Len(Recs) >= 2
    /\ response.n >= Len(FileRowsOf(response.product_id))
    /\ ScoreLess(Recs[2].score, Recs[1].score)

\* what GET /health returns in the current state
HealthBody == health(app_state).body

\* C20: in every reachable state of the service process (before startup
\* has run, after a completed startup, after shutdown has cleared the
\* state), GET /health reports model_loaded = true with products equal to
\* the number of keys of the per-product cache exactly when the cache is
\* loaded, and otherwise reports that the model is not loaded.  Before
\* startup app_state already has the key health_response, with the value
\* {}, so the handler's default is not used and the answer has no
\* model_loaded field.
C20_HealthReportsWhetherCacheIsLoaded ==
    IF phase = "serving"
    THEN /\ "model_loaded" \in DOMAIN HealthBody
         /\ HealthBody.model_loaded = TRUE
         /\ HealthBody.products = Cardinality(DOMAIN app_state.recommendations_cache)
    ELSE /\ "model_loaded" \in DOMAIN HealthBody
         /\ HealthBody.model_loaded = FALSE

---------------------------------------------------------------------------
(* Properties of GET /products/sample and GET /metrics *)

\* a sample request with n in range was answered while the service serves
SampleAnswered ==
    /\ phase = "serving"
    /\ response.endpoint = "sample"
    /\ ValidN(response.n)
CachedProducts == DOMAIN app_state.recommendations_cache
SampleList == response.body.sample_products

\* the returned list: min(k, P) pairwise distinct integers, each a cache
\* key whose GET /recommend is answered from the product's own rows
SampleIsOfCachedProducts ==
    /\ response.status = 200
    /\ Len(SampleList) = IF response.n < Cardinality(CachedProducts)
                         THEN response.n ELSE Cardinality(CachedProducts)
    /\ \A i \in 1..Len(SampleList), j \in 1..Len(SampleList) :
          i # j => SampleList[i] # SampleList[j]
    /\ \A i \in 1..Len(SampleList) :
          LET id == SampleList[i]
              next == get_recommendations(app_state, id, response.n)
          IN /\ id \in Int
             /\ id \in CachedProducts
             /\ next.status = 200
             /\ next.body.note = NOTE_REGULAR
             /\ next.body.recommendations =
                   AsEntries(Head_n(FileRowsOf(id), response.n))

\* C21 as stated: GET /products/sample?n=k with k in [1, 100] returns
\* min(k, P) pairwise distinct integer product ids, P the number of cached
\* products, each a key of the per-product cache, so that GET /recommend
\* for it is answered from the product's own list.
C21_SampleReturnsCachedProducts ==
    SampleAnswered => SampleIsOfCachedProducts

\* C21, amended: the same when P >= 1; when P = 0 the request is rejected
\* with status 503 "No products available" and no list is returned.
C21_SampleReturnsCachedProductsUnlessNone ==
    SampleAnswered =>
        IF CachedProducts = {}
        THEN /\ response.status = 503
             /\ response.detail = "No products available"
        ELSE SampleIsOfCachedProducts

\* every cached product sampled, more than one of them
C21_Witness ==
    /\ SampleAnswered
    /\ response.status = 200
    /\ Len(SampleList) >= 2
    /\ Len(SampleList) = Cardinality(CachedProducts)

\* C22: after a successful startup with a metadata record present, GET
\* /metrics reports the cache size together with the provenance held in the
\* metadata: recency_days and trained_at.  metrics_response is built with
\* model_type, cached_recommendations, available_products and optimization
\* only.
C22_MetricsReportsProvenance ==
    (/\ phase = "serving"
     /\ metadata_file.exists
     /\ response.endpoint = "metrics")
    => /\ response.status = 200
       /\ response.body.cached_recommendations = Len(cache_file.df.rows)
       /\ "recency_days" \in DOMAIN response.body
       /\ "trained_at" \in DOMAIN response.body
       /\ response.body.recency_days = metadata_file.content.recency_days
       /\ response.body.trained_at = metadata_file.content.trained_at

\* some request handler can run in the current state
HandlerCanRun == ENABLED (Recommend \/ Health \/ Metrics \/ SampleProducts)

\* the five parts of the cache state, each as loaded from the artifact
AllLoaded ==
    /\ DOMAIN app_state = DOMAIN InitialAppState
    /\ app_state.recommendations_cache = BuildCache(cache_file.df.rows)
    /\ app_state.available_products = DOMAIN BuildCache(cache_file.df.rows)
    /\ app_state.global_top_users_json = FallbackResponse(cache_file.df.rows)
    /\ DOMAIN app_state.health_response # {}
    /\ app_state.health_response.products = Cardinality(app_state.available_products)
    /\ DOMAIN app_state.metrics_response # {}
    /\ app_state.metrics_response.cached_recommendations = Len(cache_file.df.rows)

\* the five parts as they are before any load, or all cleared
NoneLoaded ==
    \/ DOMAIN app_state = {}
    \/ /\ DOMAIN app_state = DOMAIN InitialAppState
       /\ DOMAIN app_state.recommendations_cache = {}
       /\ app_state.available_products = {}
       /\ app_state.global_top_users_json = <<>>
       /\ DOMAIN app_state.health_response = {}
       /\ DOMAIN app_state.metrics_response = {}

\* C23: no request observes a partially populated cache state: wherever a
\* request handler can run, the per-product cache, the available-product
\* set, the fallback and the health and metrics summaries are all in their
\* loaded values or all in their not-loaded values, across the startup
\* assignments and the shutdown clear.
C23_NoPartialStateObservable ==
    HandlerCanRun => (AllLoaded \/ NoneLoaded)

\* a request answered after a startup that went through its assignments,
\* from a table with rows
C23_Witness ==
    /\ HandlerCanRun
    /\ Served
    /\ AllLoaded
    /\ ~NoneLoaded

---------------------------------------------------------------------------
(* Properties of the trained model and of load *)

\* C24: after any sequence of train calls on one instance, user_activity
\* and product_interactions describe exactly the users and products of the
\* most recent training table, and metadata n_users and n_products are its
\* distinct counts.  train only assigns entries, so those of an earlier
\* call that the new table does not name stay.
C24_TrainSupersedesEarlierState ==
    pc \in {"trained", "precomputed"} =>
        /\ DictKeys(user_activity) = TrainingUsers(train_df)
        /\ DictKeys(product_interactions) = TrainingProducts(train_df)
        /\ \A q \in DictKeys(product_interactions) :
              DictGet(product_interactions, q) = InteractionSet(train_df, q)
        /\ metadata.n_users = Cardinality(TrainingUsers(train_df))
        /\ metadata.n_products = Cardinality(TrainingProducts(train_df))

\* C25: ActivityBaseline.load raises when the recommendations cache file is
\* absent from the models directory, so that after a load call that
\* returned normally get_recommendations never raises the "No
\* recommendations cache" error.  load reads the cache only if the file
\* exists and returns normally without it.
C25_LoadRaisesWithoutCacheFile ==
    /\ pc = "loaded" => cache_file.exists
    /\ (pc = "loaded" /\ response.endpoint = "ActivityBaseline.get_recommendations")
          => response.detail # NO_CACHE_ERROR

---------------------------------------------------------------------------
(* Properties of precompute_recommendations as a function of its inputs.   *)

\* the rows of product p in a cache table
ListIn(df, p) ==
    LET ofP(row) == row.product_id = p
    IN SelectSeq(df.rows, ofP)

\* the processing orders of the products: every sequence of distinct
\* products
ProductOrders ==
    UNION {{o \in [1..k -> Products] :
               \A i, j \in 1..k : o[i] = o[j] => i = j} :
           k \in 1..Cardinality(Products)}

\* the product_interactions dicts that give p the interaction set `own`:
\* p with any other products, in any order, the others with any
\* interaction sets
InteractionsKeeping(p, own) ==
    {[i \in 1..Len(o) |-> [key |-> o[i],
                            val |-> IF o[i] = p THEN own ELSE others[o[i]]]] :
        o \in {x \in ProductOrders : \E i \in 1..Len(x) : x[i] = p},
        others \in [Products \ {p} -> SUBSET Users \ {{}}]}

\* C26: the candidate list computed for a product p depends only on the
\* user activity scores and on p's own interaction set: with the same
\* user_activity, every processing order of the products and every choice
\* of the other products' interaction sets gives p the list it has in the
\* cache.
C26_ListDependsOnOwnInteractionsOnly ==
    Precomputed =>
        LET users_by_activity == SortByActivity(user_activity)
        IN \A i \in 1..Len(product_interactions) :
              LET p == product_interactions[i].key
                  own == product_interactions[i].val
              IN \A pi \in InteractionsKeeping(p, own) :
                    ListIn(DataFrame(PrecomputeRows(users_by_activity, pi, top_n)), p)
                        = ListOf(p)

\* two products were processed, the second after a product with a
\* different interaction set, and the second has a list
C26_Witness ==
    /\ Precomputed
    /\ Len(product_interactions) = 2
    /\ product_interactions[1].val # product_interactions[2].val
    /\ ListOf(product_interactions[2].key) # <<>>
    /\ ListOf(product_interactions[1].key) # <<>>

---------------------------------------------------------------------------
(* Properties of the cache that the service builds from the saved table.   *)

\* the service runs on the table that the training run saved
ServingSaved == pc = "saved" /\ phase = "serving"

\* the training products with at least one scored user that has not
\* interacted with them
ProductsWithSurvivors ==
    {p \in TrainingProducts(train_df) : Survivors(p) # {}}

\* C27: the product ids with an entry in the serving cache are exactly the
\* training products that have at least one surviving candidate: no product
\* absent from the training table has an entry, and every training product
\* with a scored user that has not interacted with it has one.
C27_CacheKeysAreProductsWithSurvivors ==
    ServingSaved =>
        DOMAIN app_state.recommendations_cache = ProductsWithSurvivors

\* the service runs with an entry for one training product and none for
\* another, all of whose scored users have interacted with it
C27_Witness ==
    /\ ServingSaved
    /\ \E p \in TrainingProducts(train_df) : IsCached(p)
    /\ \E p \in TrainingProducts(train_df) : ~IsCached(p)

\* C28: in the precomputed cache a user's score is the same in every product
\* list in which the user appears, namely the user's activity score; so the
\* score the fallback builder keeps for a user (the 'first' of the user's
\* rows) is the score of every row of that user in the loaded table.
C28_OneScorePerUser ==
    /\ Precomputed =>
          \A i \in 1..Len(CacheRows) :
              CacheRows[i].score = ScoreOf(CacheRows[i].customer_id)
    /\ ServingSaved =>
          LET rows == cache_file.df.rows
              F == StoredFallback.recommendations
          IN \A k \in 1..Len(F), i \in 1..Len(rows) :
                rows[i].customer_id = F[k].customer_id
                    => rows[i].score = F[k].score

\* the service runs on a table in which a user with a positive score is
\* listed for two products, first in one list and second in the other, and
\* the fallback lists the user
C28_Witness ==
    /\ ServingSaved
    /\ \E i, j \in 1..Len(CacheRows) :
          /\ CacheRows[i].customer_id = CacheRows[j].customer_id
          /\ CacheRows[i].product_id # CacheRows[j].product_id
          /\ CacheRows[i].rank # CacheRows[j].rank
          /\ ScoreLess(Div(0, 1), CacheRows[i].score)
          /\ \E k \in 1..Len(StoredFallback.recommendations) :
                StoredFallback.recommendations[k].customer_id
                    = CacheRows[i].customer_id

\* the entries of a list name pairwise different users
DistinctUsers(list) ==
    \A i, j \in 1..Len(list) :
        list[i].customer_id = list[j].customer_id => i = j

\* C29: a user id appears at most once in the precomputed list of any
\* product and at most once in the global fallback list, so no response of
\* GET /recommend names the same user twice.
C29_NoUserListedTwice ==
    /\ Precomputed =>
          \A p \in Catalogue : DistinctUsers(ListOf(p))
    /\ ServingSaved => DistinctUsers(StoredFallback.recommendations)
    /\ Served => DistinctUsers(Recs)

\* the fallback, built from a table with two rows of one user, was returned
\* with two entries
C29_Witness ==
    /\ ServingSaved
    /\ Served
    /\ ~IsCached(response.product_id)
    /\ Len(Recs) >= 2
    /\ \E i, j \in 1..Len(CacheRows) :
          i # j /\ CacheRows[i].customer_id = CacheRows[j].customer_id

---------------------------------------------------------------------------
(* Properties of the recency window.                                       *)

\* C30: for every user scored by train with recency window RecencyDays,
\* recent_count >= 1 implies days_since <= RecencyDays; a user whose latest
\* interaction is more than RecencyDays days before the reference time has
\* recent_count = 0 and activity_score = 0; and every score is at most
\* recent_count.
C30_RecentCountBoundsScore ==
    pc # "load" =>
        \A u \in TrainingUsers(train_df) :
            LET info == DictGet(user_activity, u)
                latest == Max({r.event_date : r \in GroupRows(train_df, u)})
                reference == Max({r.event_date : r \in train_df})
            IN /\ info.recent_count >= 1 => info.days_since <= RecencyDays
               /\ (reference - latest > RecencyDays) =>
                     /\ info.days_since > RecencyDays
                     /\ info.recent_count = 0
                     /\ info.activity_score.num = 0
               /\ ScoreLeq(info.activity_score, Div(info.recent_count, 1))

\* one user last seen before the window, another inside the window on an
\* earlier day than the reference, with a score below its recent_count
C30_Witness ==
    /\ pc = "trained"
    /\ \E u \in TrainingUsers(train_df), v \in TrainingUsers(train_df) :
          /\ DictGet(user_activity, u).days_since > RecencyDays
          /\ DictGet(user_activity, v).recent_count >= 1
          /\ DictGet(user_activity, v).days_since > 0
          /\ ScoreLess(DictGet(user_activity, v).activity_score,
                       Div(DictGet(user_activity, v).recent_count, 1))

=============================================================================
